---- MODULE Spec2Model ----
(***************************************************************************)
(* A model of loc_by_language.py: list the files under a root, classify   *)
(* each by file name, count newline bytes, aggregate per language and     *)
(* print a sorted table.                                                   *)
(*                                                                         *)
(* Strings the program inspects character by character (file names,       *)
(* extensions) are sequences of one-character strings; a relative path is *)
(* the sequence of its components.  Language labels and output text are   *)
(* TLA+ strings.  File contents are sequences of byte values.             *)
(***************************************************************************)
EXTENDS Integers, Sequences, FiniteSets, TLC

VARIABLES
    pc,              \* position of main: start, list_rg, list_git, walk, listed, scan, done, crashed
    root_exists,     \* root.exists() of the resolved --root
    code_only,       \* args.code_only
    include_self,    \* args.include_self
    self_under_root, \* the running script's own file lies under root, at SelfRel
    attempts,        \* list_files: the commands run so far and how each ended
    files,           \* the list list_files returned
    idx,             \* position of the for loop of main in files (1-based)
    totals,          \* dict totals, in insertion order: sequence of <<label, lines>>
    cur,             \* the file the last loop iteration handled and what became of it
    rows,            \* local rows of main
    stdout,          \* text printed to standard output
    stderr,          \* text printed to standard error
    exit_code,       \* exit status of the process, -1 while running
    cl,              \* classifier harness: [path, lang, done]
    rd               \* read loop of count_newlines: [content, pos, chunks, total, state]

vars ==
    <<pc, root_exists, code_only, include_self, self_under_root, attempts, files,
      idx, totals, cur, rows, stdout, stderr, exit_code, cl, rd>>

main_vars ==
    <<pc, root_exists, code_only, include_self, self_under_root, attempts, files,
      idx, totals, cur, rows, stdout, stderr, exit_code>>

----------------------------------------------------------------------------
(* Bounds of the model *)

\* longest listing list_files returns
MaxFiles == 4
\* longest file content the read loop is explored on
MaxLen == 5
\* bytes one fh.read returns at most; the program reads 1024 * 1024 at a time,
\* the model keeps the loop and shrinks the chunk so that contents span chunks
ChunkSize == 2
\* deepest directory nesting of the paths the classifier is explored on
MaxDepth == 1

----------------------------------------------------------------------------
(* Tables of the program *)

None == "None"

NL == 10

EXTENSION_MAP ==
    (<<".", "p", "y">> :> "Python")
    @@ (<<".", "p", "y", "x">> :> "Cython")
    @@ (<<".", "p", "x", "d">> :> "Cython")
    @@ (<<".", "p", "x", "i">> :> "Cython")
    @@ (<<".", "c">> :> "C")
    @@ (<<".", "h">> :> "C++")
    @@ (<<".", "h", "p", "p">> :> "C++")
    @@ (<<".", "h", "h">> :> "C++")
    @@ (<<".", "h", "x", "x">> :> "C++")
    @@ (<<".", "c", "p", "p">> :> "C++")
    @@ (<<".", "c", "c">> :> "C++")
    @@ (<<".", "c", "x", "x">> :> "C++")
    @@ (<<".", "f", "9", "0">> :> "Fortran")
    @@ (<<".", "f", "9", "5">> :> "Fortran")
    @@ (<<".", "f", "0", "3">> :> "Fortran")
    @@ (<<".", "f">> :> "Fortran")
    @@ (<<".", "s", "h">> :> "Shell")
    @@ (<<".", "b", "a", "s", "h">> :> "Shell")
    @@ (<<".", "p", "s", "1">> :> "PowerShell")
    @@ (<<".", "r", "s", "t">> :> "reStructuredText")
    @@ (<<".", "m", "d">> :> "Markdown")
    @@ (<<".", "t", "o", "m", "l">> :> "TOML")
    @@ (<<".", "y", "a", "m", "l">> :> "YAML")
    @@ (<<".", "y", "m", "l">> :> "YAML")
    @@ (<<".", "j", "s", "o", "n">> :> "JSON")
    @@ (<<".", "i", "n", "i">> :> "Config")
    @@ (<<".", "c", "f", "g">> :> "Config")
    @@ (<<".", "c", "o", "n", "f">> :> "Config")
    @@ (<<".", "c", "m", "a", "k", "e">> :> "CMake")
    @@ (<<".", "m", "k">> :> "Makefile")
    @@ (<<".", "i", "p", "y", "n", "b">> :> "Jupyter Notebook")
    @@ (<<".", "t", "x", "t">> :> "Text")

ROOT_FILENAME_MAP ==
    (<<"C", "M", "a", "k", "e", "L", "i", "s", "t", "s", ".", "t", "x", "t">> :> "CMake")
    @@ (<<"M", "a", "k", "e", "f", "i", "l", "e">> :> "Makefile")

CODE_LANGUAGES ==
    {"Python", "C++", "Cython", "C", "Fortran"}

lower_char(c) ==
    CASE c = "A" -> "a"
      [] c = "B" -> "b"
      [] c = "C" -> "c"
      [] c = "D" -> "d"
      [] c = "E" -> "e"
      [] c = "F" -> "f"
      [] c = "G" -> "g"
      [] c = "H" -> "h"
      [] c = "I" -> "i"
      [] c = "J" -> "j"
      [] c = "K" -> "k"
      [] c = "L" -> "l"
      [] c = "M" -> "m"
      [] c = "N" -> "n"
      [] c = "O" -> "o"
      [] c = "P" -> "p"
      [] c = "Q" -> "q"
      [] c = "R" -> "r"
      [] c = "S" -> "s"
      [] c = "T" -> "t"
      [] c = "U" -> "u"
      [] c = "V" -> "v"
      [] c = "W" -> "w"
      [] c = "X" -> "x"
      [] c = "Y" -> "y"
      [] c = "Z" -> "z"
      [] OTHER -> c

upper_char(c) ==
    CASE c = "a" -> "A"
      [] c = "b" -> "B"
      [] c = "c" -> "C"
      [] c = "d" -> "D"
      [] c = "e" -> "E"
      [] c = "f" -> "F"
      [] c = "g" -> "G"
      [] c = "h" -> "H"
      [] c = "i" -> "I"
      [] c = "j" -> "J"
      [] c = "k" -> "K"
      [] c = "l" -> "L"
      [] c = "m" -> "M"
      [] c = "n" -> "N"
      [] c = "o" -> "O"
      [] c = "p" -> "P"
      [] c = "q" -> "Q"
      [] c = "r" -> "R"
      [] c = "s" -> "S"
      [] c = "t" -> "T"
      [] c = "u" -> "U"
      [] c = "v" -> "V"
      [] c = "w" -> "W"
      [] c = "x" -> "X"
      [] c = "y" -> "Y"
      [] c = "z" -> "Z"
      [] OTHER -> c

----------------------------------------------------------------------------
(* language_for_path *)

\* str.lower of a character sequence
lower(s) ==
    [i \in 1..Len(s) |-> lower_char(s[i])]

\* str.rfind("."): the 0-based index of the last ".", -1 when there is none
RECURSIVE rfind_from(_, _)
rfind_from(name, i) ==
    IF i = 0 THEN -1
    ELSE IF name[i] = "." THEN i - 1
    ELSE rfind_from(name, i - 1)

rfind_dot(name) ==
    rfind_from(name, Len(name))

\* PurePath.suffix of the final component: name[i:] when 0 < i < len(name) - 1
suffix(path) ==
    LET name == path[Len(path)]
        i == rfind_dot(name)
    IN  IF 0 < i /\ i < Len(name) - 1
        THEN SubSeq(name, i + 1, Len(name))
        ELSE <<>>

\* PurePath.as_posix: the components joined by "/"
RECURSIVE as_posix(_)
as_posix(path) ==
    IF Len(path) = 1 THEN path[1]
    ELSE path[1] \o <<"/">> \o as_posix(Tail(path))

\* dict.get(key), None when the key is absent
map_get(map, key) ==
    IF key \in DOMAIN map THEN map[key] ELSE None

language_for_path_ext_first(path) ==
    IF lower(suffix(path)) \in DOMAIN EXTENSION_MAP
    THEN EXTENSION_MAP[lower(suffix(path))]
    ELSE map_get(ROOT_FILENAME_MAP, as_posix(path))

language_for_path(path) ==
    IF as_posix(path) \in DOMAIN ROOT_FILENAME_MAP
    THEN ROOT_FILENAME_MAP[as_posix(path)]
    ELSE map_get(EXTENSION_MAP, lower(suffix(path)))

----------------------------------------------------------------------------
(* count_newlines *)

\* bytes.count(b"\n")
chunk_count_skip_last(chunk) ==
    Cardinality({i \in 1..(Len(chunk) - 1) : chunk[i] = NL})

chunk_count(chunk) ==
    Cardinality({i \in 1..Len(chunk) : chunk[i] = NL})

\* fh.read(n) at offset pos (0-based): at most n bytes, empty at end of file
read_at(content, pos, n) ==
    SubSeq(content, pos + 1, IF pos + n > Len(content) THEN Len(content) ELSE pos + n)

\* the loop over iter(lambda: fh.read(1024 * 1024), b""), run to its end
RECURSIVE read_loop(_, _, _)
read_loop(content, pos, total) ==
    LET chunk == read_at(content, pos, ChunkSize)
    IN  IF chunk = <<>> THEN total
        ELSE read_loop(content, pos + Len(chunk), total + chunk_count(chunk))

count_newlines(content) ==
    read_loop(content, 0, 0)

----------------------------------------------------------------------------
(* format_table and the aggregation of main *)

RECURSIVE spaces(_)
spaces(n) ==
    IF n <= 0 THEN "" ELSE " " \o spaces(n - 1)

\* f"{lang:<{width}}": left-aligned, padded to width
ljust(s, width) ==
    s \o spaces(width - Len(s))

\* f"{lines:>8}": right-aligned in at least 8 columns
rjust(s, width) ==
    spaces(width - Len(s)) \o s

RECURSIVE max_label_len(_)
max_label_len(rs) ==
    IF Len(rs) = 1 THEN Len(rs[1][1])
    ELSE LET m == max_label_len(Tail(rs))
         IN  IF Len(rs[1][1]) >= m THEN Len(rs[1][1]) ELSE m

RECURSIVE join_lines(_)
join_lines(ls) ==
    IF Len(ls) = 1 THEN ls[1]
    ELSE ls[1] \o "\n" \o join_lines(Tail(ls))

format_table(rs) ==
    LET width == max_label_len(rs)
    IN  join_lines([i \in 1..Len(rs) |->
            ljust(rs[i][1], width) \o "  " \o rjust(ToString(rs[i][2]), 8)])

\* totals[lang] += n on a defaultdict(int): a new key is appended with 0 + n
has_key(d, k) ==
    \E i \in 1..Len(d) : d[i][1] = k

dict_add(d, k, n) ==
    IF has_key(d, k)
    THEN [i \in 1..Len(d) |-> IF d[i][1] = k THEN <<k, d[i][2] + n>> ELSE d[i]]
    ELSE Append(d, <<k, n>>)

\* sorted(items, key=lambda item: item[1], reverse=True): stable, so items of
\* equal count keep the order they had
RECURSIVE insert_asc(_, _)
insert_asc(sorted, item) ==
    IF sorted = <<>> THEN <<item>>
    ELSE IF Head(sorted)[2] <= item[2]
         THEN <<Head(sorted)>> \o insert_asc(Tail(sorted), item)
         ELSE <<item>> \o sorted

RECURSIVE insert_desc(_, _)
insert_desc(sorted, item) ==
    IF sorted = <<>> THEN <<item>>
    ELSE IF Head(sorted)[2] >= item[2]
         THEN <<Head(sorted)>> \o insert_desc(Tail(sorted), item)
         ELSE <<item>> \o sorted

RECURSIVE sorted_desc(_)
sorted_desc(items) ==
    IF items = <<>> THEN <<>>
    ELSE insert_desc(sorted_desc(SubSeq(items, 1, Len(items) - 1)), items[Len(items)])

is_code_language_without_cpp(item) ==
    item[1] \in CODE_LANGUAGES \ {"C++"}

is_code_language(item) ==
    item[1] \in CODE_LANGUAGES

\* the items of totals that make the report
report_items(d, only_code) ==
    IF only_code THEN SelectSeq(d, is_code_language) ELSE d

RECURSIVE sum_lines(_)
sum_lines(rs) ==
    IF rs = <<>> THEN 0 ELSE Head(rs)[2] + sum_lines(Tail(rs))

build_rows_total_of_all(d, only_code) ==
    LET sorted == sorted_desc(report_items(d, only_code))
    IN  Append(sorted, <<"TOTAL", sum_lines(d)>>)

\* rows as main builds them: the sorted items, then the TOTAL row
build_rows(d, only_code) ==
    LET sorted == sorted_desc(report_items(d, only_code))
    IN  Append(sorted, <<"TOTAL", sum_lines(sorted)>>)

----------------------------------------------------------------------------
(* The inputs main is explored on *)

\* relative path of the script's own file when it lies under root
SelfRel ==
    <<(<<"l", "o", "c", ".", "p", "y">>)>>

\* the relative paths a listing is drawn from
ScanPaths ==
    << <<(<<"a", ".", "p", "y">>)>>,
       <<(<<"b", ".", "c", "p", "p">>)>>,
       <<(<<"R", "E", "A", "D", "M", "E", ".", "m", "d">>)>>,
       <<(<<"n", "o", "t", "e", "s", ".", "t", "x", "t">>)>>,
       SelfRel,
       <<(<<"x", ".", "b", "i", "n">>)>>,
       <<(<<"s", ".", "F", "9", "0">>)>> >>

\* a file under the version-control metadata directory
GitDirFile ==
    << <<".", "g", "i", "t">>, <<"h", "o", "o", "k", ".", "p", "y">> >>

Min(S) ==
    CHOOSE x \in S : \A y \in S : x <= y

RECURSIVE paths_at(_)
paths_at(S) ==
    IF S = {} THEN <<>>
    ELSE <<ScanPaths[Min(S)]>> \o paths_at(S \ {Min(S)})

reversed(s) ==
    [i \in 1..Len(s) |-> s[Len(s) + 1 - i]]

\* the listings a strategy can produce: up to MaxFiles distinct paths, in the
\* order of ScanPaths or in the opposite order
Listings ==
    LET chosen == {T \in SUBSET (1..Len(ScanPaths)) : Cardinality(T) <= MaxFiles}
    IN  {paths_at(S) : S \in chosen} \cup {reversed(paths_at(S)) : S \in chosen}

\* contents of a readable file: 0 newlines (no trailing newline), 2, 3 and 5
ScanContents ==
    { <<120>>, <<120, NL, 120, NL>>, <<NL, 120, NL, NL>>, <<NL, NL, NL, NL, NL>> }

\* what the file system says of a listed path when main reaches it
FileStates ==
    {"regular", "missing", "not_regular", "unreadable"}

\* how subprocess.run of a listing command can end
CommandOutcomes ==
    {"ok", "CalledProcessError", "FileNotFoundError", "OSError"}

NoFile ==
    [path |-> <<>>, lang |-> None, state |-> "none", lines |-> 0, action |-> "none"]

----------------------------------------------------------------------------
(* list_files *)

is_nonempty(entry) ==
    entry # <<>>

\* proc.stdout.split(b"\x00") leaves an empty entry after the last separator;
\* the comprehension drops the empty entries
split_entries(listing) ==
    SelectSeq(listing \o << <<>> >>, is_nonempty)

\* run_file_list_command: a list, None, or an exception it does not catch
run_file_list_command(outcome, listing) ==
    IF outcome = "ok"
    THEN [kind |-> "list", files |-> split_entries(listing)]
    ELSE IF outcome \in {"CalledProcessError", "FileNotFoundError"}
    THEN [kind |-> "None", files |-> <<>>]
    ELSE [kind |-> "raise", files |-> <<>>]

not_under_git(path) ==
    path[1] # <<".", "g", "i", "t">>

\* the os.walk loop: every file except those below a pruned .git directory
walk(tree) ==
    SelectSeq(tree, not_under_git)

\* an exception nothing catches: the interpreter prints a traceback and exits 1
Uncaught(e) ==
    /\ pc' = "crashed"
    /\ stderr' = "Traceback (most recent call last): " \o e
    /\ exit_code' = 1

\* one call of run_file_list_command from list_files, for command cmd at
\* position at; on None list_files goes on to position next
RunCommand(cmd, at, next) ==
    /\ pc = at
    /\ \E outcome \in CommandOutcomes, listing \in Listings :
        LET r == run_file_list_command(outcome, listing)
        IN  /\ attempts' = Append(attempts, <<cmd, outcome>>)
            /\ IF r.kind = "list"
               THEN /\ files' = r.files
                    /\ pc' = "listed"
                    /\ UNCHANGED <<stderr, exit_code>>
               ELSE IF r.kind = "None"
               THEN /\ pc' = next
                    /\ UNCHANGED <<files, stderr, exit_code>>
               ELSE /\ Uncaught(outcome)
                    /\ UNCHANGED files
    /\ UNCHANGED <<root_exists, code_only, include_self, self_under_root, idx,
                   totals, cur, rows, stdout, cl, rd>>

ListRg ==
    RunCommand("rg", "list_rg", "list_git")

ListGit ==
    RunCommand("git", "list_git", "walk")

ListWalk ==
    /\ pc = "walk"
    /\ \E listing \in Listings, withGit \in BOOLEAN :
        LET tree == IF withGit THEN <<GitDirFile>> \o listing ELSE listing
        IN  files' = walk(tree)
    /\ attempts' = Append(attempts, <<"walk", "ok">>)
    /\ pc' = "listed"
    /\ UNCHANGED <<root_exists, code_only, include_self, self_under_root, idx,
                   totals, cur, rows, stdout, stderr, exit_code, cl, rd>>

----------------------------------------------------------------------------
(* main *)

\* the resolved root does not exist: diagnostic on stderr, return 2
RootMissing ==
    /\ pc = "start"
    /\ ~root_exists
    /\ stderr' = "error: root does not exist: <root>"
    /\ exit_code' = 2
    /\ pc' = "done"
    /\ UNCHANGED <<root_exists, code_only, include_self, self_under_root, attempts,
                   files, idx, totals, cur, rows, stdout, cl, rd>>

RootFound ==
    /\ pc = "start"
    /\ root_exists
    /\ pc' = "list_rg"
    /\ UNCHANGED <<root_exists, code_only, include_self, self_under_root, attempts,
                   files, idx, totals, cur, rows, stdout, stderr, exit_code, cl, rd>>

\* list_files has returned: its frame is gone, the for loop of main starts
ListReturned ==
    /\ pc = "listed"
    /\ attempts' = <<>>
    /\ idx' = 1
    /\ pc' = "scan"
    /\ UNCHANGED <<root_exists, code_only, include_self, self_under_root, files,
                   totals, cur, rows, stdout, stderr, exit_code, cl, rd>>

resolves_to_self_by_name(rel_path) ==
    rel_path = SelfRel

\* (root / rel_path).resolve() == Path(__file__).resolve()
resolves_to_self(rel_path) ==
    self_under_root /\ rel_path = SelfRel

\* Path.is_file()
is_file(state) ==
    state \in {"regular", "unreadable"}

\* why an iteration of the for loop leaves rel_path out, "count" when it does not
skip_reason(lang, self, incl_self, state) ==
    IF lang = None THEN "unclassified"
    ELSE IF ~incl_self /\ self THEN "self"
    ELSE IF ~is_file(state) THEN "not_file"
    ELSE "count"

\* one iteration of the for loop over the listed files
ScanFile ==
    /\ pc = "scan"
    /\ idx <= Len(files)
    /\ \E state \in FileStates, content \in ScanContents :
        LET rel_path == files[idx]
            lang == language_for_path(rel_path)
            why == skip_reason(lang, resolves_to_self(rel_path), include_self, state)
            file == [path |-> rel_path, lang |-> lang, state |-> state, lines |-> 0,
                     action |-> why]
        IN  IF why # "count"
            THEN /\ cur' = file
                 /\ idx' = idx + 1
                 /\ UNCHANGED <<pc, totals, stderr, exit_code>>
            ELSE IF state = "unreadable"
            THEN \* path.open("rb") raises OSError inside count_newlines
                 /\ cur' = [file EXCEPT !.action = "raise"]
                 /\ Uncaught("PermissionError")
                 /\ UNCHANGED <<idx, totals>>
            ELSE /\ cur' = [file EXCEPT !.lines = count_newlines(content)]
                 /\ totals' = dict_add(totals, lang, count_newlines(content))
                 /\ idx' = idx + 1
                 /\ UNCHANGED <<pc, stderr, exit_code>>
    /\ UNCHANGED <<root_exists, code_only, include_self, self_under_root, attempts,
                   files, rows, stdout, cl, rd>>

\* what main does once the loop is over: "no_match" or "report"
after_loop_filtered(d, only_code) ==
    IF report_items(d, only_code) = <<>> THEN "no_match" ELSE "report"

after_loop(d, only_code) ==
    IF d = <<>> THEN "no_match" ELSE "report"

NoMatch ==
    /\ pc = "scan"
    /\ idx > Len(files)
    /\ after_loop(totals, code_only) = "no_match"
    /\ stdout' = "No matching files found."
    /\ exit_code' = 1
    /\ pc' = "done"
    /\ UNCHANGED <<root_exists, code_only, include_self, self_under_root, attempts,
                   files, idx, totals, cur, rows, stderr, cl, rd>>

Report ==
    /\ pc = "scan"
    /\ idx > Len(files)
    /\ after_loop(totals, code_only) = "report"
    /\ rows' = build_rows(totals, code_only)
    /\ stdout' = format_table(build_rows(totals, code_only))
    /\ exit_code' = 0
    /\ pc' = "done"
    /\ UNCHANGED <<root_exists, code_only, include_self, self_under_root, attempts,
                   files, idx, totals, cur, stderr, cl, rd>>

IdleCl ==
    [path |-> <<>>, lang |-> None, done |-> FALSE]

IdleRd ==
    [content |-> <<>>, pos |-> 0, chunks |-> <<>>, total |-> 0, state |-> "idle"]

Init ==
    /\ pc = "start"
    /\ root_exists \in BOOLEAN
    /\ code_only \in BOOLEAN
    /\ include_self \in BOOLEAN
    /\ self_under_root \in BOOLEAN
    /\ attempts = <<>>
    /\ files = <<>>
    /\ idx = 0
    /\ totals = <<>>
    /\ cur = NoFile
    /\ rows = <<>>
    /\ stdout = ""
    /\ stderr = ""
    /\ exit_code = -1
    /\ cl = IdleCl
    /\ rd = IdleRd

Next ==
    \/ RootMissing
    \/ RootFound
    \/ ListRg
    \/ ListGit
    \/ ListWalk
    \/ ListReturned
    \/ ScanFile
    \/ NoMatch
    \/ Report

Spec ==
    Init /\ [][Next]_vars

----------------------------------------------------------------------------
(* language_for_path applied to one path *)

upper(s) ==
    [i \in 1..Len(s) |-> upper_char(s[i])]

Stems ==
    { <<>>, <<"a">>, <<"a", ".", "b">>,
      <<"C", "M", "a", "k", "e", "L", "i", "s", "t", "s">>,
      <<"c", "m", "a", "k", "e", "l", "i", "s", "t", "s">>,
      <<"M", "a", "k", "e", "f", "i", "l", "e">>,
      <<"m", "a", "k", "e", "f", "i", "l", "e">> }

Endings ==
    DOMAIN EXTENSION_MAP
        \cup {upper(e) : e \in DOMAIN EXTENSION_MAP}
        \cup { <<>>, <<".">>, <<".", "b", "i", "n">>, <<".", "P", "y">>,
               <<".", "p", "y", ".", "b", "a", "k">> }

only_dots(name) ==
    \A i \in 1..Len(name) : name[i] = "."

FileNames ==
    {n \in {stem \o ending : stem \in Stems, ending \in Endings} : ~only_dots(n)}

RECURSIVE dirs_up_to(_)
dirs_up_to(depth) ==
    IF depth = 0 THEN { <<>> }
    ELSE dirs_up_to(depth - 1)
            \cup {<<(<<"s", "u", "b">>)>> \o d : d \in dirs_up_to(depth - 1)}

ClassifyPaths ==
    {d \o <<n>> : d \in dirs_up_to(MaxDepth), n \in FileNames}

InitClassify ==
    /\ pc = "idle"
    /\ root_exists = TRUE
    /\ code_only = FALSE
    /\ include_self = FALSE
    /\ self_under_root = FALSE
    /\ attempts = <<>>
    /\ files = <<>>
    /\ idx = 0
    /\ totals = <<>>
    /\ cur = NoFile
    /\ rows = <<>>
    /\ stdout = ""
    /\ stderr = ""
    /\ exit_code = -1
    /\ cl \in {[path |-> p, lang |-> None, done |-> FALSE] : p \in ClassifyPaths}
    /\ rd = IdleRd

Classify ==
    /\ ~cl.done
    /\ cl.path # <<>>
    /\ cl' = [cl EXCEPT !.lang = language_for_path(cl.path), !.done = TRUE]
    /\ UNCHANGED <<main_vars, rd>>

NextClassify ==
    Classify

SpecClassify ==
    InitClassify /\ [][NextClassify]_vars

----------------------------------------------------------------------------
(* the read loop of count_newlines, one fh.read at a time *)

RECURSIVE byte_strings(_)
byte_strings(n) ==
    IF n = 0 THEN { <<>> }
    ELSE byte_strings(n - 1)
            \cup {Append(s, b) : s \in {t \in byte_strings(n - 1) : Len(t) = n - 1},
                                 b \in {NL, 120}}

InitCount ==
    /\ pc = "idle"
    /\ root_exists = TRUE
    /\ code_only = FALSE
    /\ include_self = FALSE
    /\ self_under_root = FALSE
    /\ attempts = <<>>
    /\ files = <<>>
    /\ idx = 0
    /\ totals = <<>>
    /\ cur = NoFile
    /\ rows = <<>>
    /\ stdout = ""
    /\ stderr = ""
    /\ exit_code = -1
    /\ cl = IdleCl
    /\ rd \in {[content |-> c, pos |-> 0, chunks |-> <<>>, total |-> 0, state |-> "open"] :
                 c \in byte_strings(MaxLen)}

\* fh.read returned a non-empty chunk of at most ChunkSize bytes: the loop
\* body adds its newlines.  A read may return fewer bytes than asked for.
ReadChunk ==
    /\ rd.state = "open"
    /\ \E n \in 1..ChunkSize :
        LET chunk == read_at(rd.content, rd.pos, n)
        IN  /\ chunk # <<>>
            /\ rd' = [rd EXCEPT !.pos = rd.pos + Len(chunk),
                                !.chunks = Append(rd.chunks, chunk),
                                !.total = rd.total + chunk_count(chunk)]
    /\ UNCHANGED <<main_vars, cl>>

\* fh.read returned b"": the sentinel of iter() ends the loop, the file closes
ReadEnd ==
    /\ rd.state = "open"
    /\ read_at(rd.content, rd.pos, ChunkSize) = <<>>
    /\ rd' = [rd EXCEPT !.chunks = Append(rd.chunks, <<>>), !.state = "closed"]
    /\ UNCHANGED <<main_vars, cl>>

NextCount ==
    \/ ReadChunk
    \/ ReadEnd

SpecCount ==
    InitCount /\ [][NextCount]_vars

----------------------------------------------------------------------------
(* Properties *)

RECURSIVE newlines_in(_)
newlines_in(content) ==
    IF content = <<>> THEN 0
    ELSE (IF Head(content) = NL THEN 1 ELSE 0) + newlines_in(Tail(content))

RECURSIVE sum_chunk_newlines(_)
sum_chunk_newlines(chunks) ==
    IF chunks = <<>> THEN 0
    ELSE newlines_in(Head(chunks)) + sum_chunk_newlines(Tail(chunks))

\* C6: for content with exactly k newline bytes count_newlines returns k
\* however the content is split into chunks: when the loop has ended the
\* total is k, the per-chunk newline counts add up to k, the only empty chunk
\* is the last one read, and the whole-file computation gives k as well.
CountIsNewlines ==
    rd.state = "closed" =>
        /\ rd.total = newlines_in(rd.content)
        /\ sum_chunk_newlines(rd.chunks) = newlines_in(rd.content)
        /\ count_newlines(rd.content) = newlines_in(rd.content)
        /\ rd.pos = Len(rd.content)
        /\ rd.chunks[Len(rd.chunks)] = <<>>
        /\ \A i \in 1..(Len(rd.chunks) - 1) : rd.chunks[i] # <<>>

\* content longer than one chunk, without a trailing newline, several newlines
CountWitness ==
    /\ rd.state = "closed"
    /\ Len(rd.content) > ChunkSize
    /\ Len(rd.chunks) >= 3
    /\ rd.total >= 2
    /\ rd.content[Len(rd.content)] # NL

same_ignoring_case(a, b) ==
    /\ Len(a) = Len(b)
    /\ \A i \in 1..Len(a) : a[i] = b[i] \/ upper_char(a[i]) = b[i] \/ a[i] = upper_char(b[i])

\* the final extension of a file name: from its last dot on, when that dot is
\* neither the first nor the last character
final_extension(name) ==
    LET dots == {k \in 2..(Len(name) - 1) :
                    name[k] = "." /\ \A j \in (k + 1)..Len(name) : name[j] # "."}
    IN  IF dots = {} THEN <<>>
        ELSE SubSeq(name, CHOOSE k \in dots : TRUE, Len(name))

reference_label(path) ==
    LET name == path[Len(path)]
        matches == {e \in DOMAIN EXTENSION_MAP : same_ignoring_case(final_extension(name), e)}
    IN  IF Len(path) = 1 /\ name \in DOMAIN ROOT_FILENAME_MAP
        THEN ROOT_FILENAME_MAP[name]
        ELSE IF matches # {} THEN EXTENSION_MAP[CHOOSE e \in matches : TRUE]
        ELSE None

CMakeListsTxt ==
    <<"C", "M", "a", "k", "e", "L", "i", "s", "t", "s", ".", "t", "x", "t">>

\* C5: language_for_path returns the override label when the whole relative
\* path is exactly an override key, else the extension table's label for the
\* lower-cased final extension, else nothing; an override key below a
\* directory or in another case is classified by its extension alone.
ClassifierMatchesReference ==
    cl.done =>
        /\ cl.lang = reference_label(cl.path)
        /\ cl.path = <<CMakeListsTxt>> => cl.lang = "CMake"
        /\ (Len(cl.path) > 1 /\ cl.path[Len(cl.path)] = CMakeListsTxt) => cl.lang = "Text"
        /\ (cl.path # <<CMakeListsTxt>> /\ lower(cl.path[Len(cl.path)]) = lower(CMakeListsTxt))
              => cl.lang = "Text"
        /\ cl.path[Len(cl.path)] \in {<<"a", ".", "p", "y">>, <<"a", ".", "P", "Y">>}
              => cl.lang = "Python"

\* the override wins over the extension .txt
ClassifierWitness ==
    /\ cl.done
    /\ cl.path = <<CMakeListsTxt>>
    /\ cl.lang = "CMake"
    /\ map_get(EXTENSION_MAP, lower(suffix(cl.path))) = "Text"

----------------------------------------------------------------------------
(* Properties of main *)

NoMatchText ==
    "No matching files found."

Ended ==
    pc \in {"done", "crashed"}

Reported ==
    pc = "done" /\ exit_code = 0

\* the rows of the report before the TOTAL row
LanguageRows ==
    SubSeq(rows, 1, Len(rows) - 1)

items_of(s) ==
    {s[i] : i \in 1..Len(s)}

labels_of(s) ==
    {s[i][1] : i \in 1..Len(s)}

CodeLabels ==
    {"Python", "C++", "Cython", "C", "Fortran"}

is_own_file(p) ==
    self_under_root /\ p = SelfRel

\* C1: a classified file that cannot be opened or read is skipped silently;
\* it adds no lines, nothing is written to stderr and the run goes on to the
\* report and a normal exit.
UnreadableFileIsSkipped ==
    (cur.lang # None /\ cur.action # "self"
        /\ cur.state \in {"missing", "not_regular", "unreadable"})
    => /\ cur.action = "not_file"
       /\ cur.lines = 0
       /\ pc \in {"scan", "done"}
       /\ stderr = ""

\* C2: the strategies run in the order rg, git ls-files, walk, each only after
\* all earlier ones failed; the first success is what list_files returns; a
\* failing command is never surfaced, list_files goes on to the next strategy.
ListFilesFallsThrough ==
    /\ \A i \in 1..Len(attempts) :
          /\ attempts[i][1] = <<"rg", "git", "walk">>[i]
          /\ i < Len(attempts) => attempts[i][2] # "ok"
    /\ pc = "listed" => attempts[Len(attempts)][2] = "ok"
    /\ (attempts # <<>> /\ attempts[Len(attempts)][2] # "ok")
          => /\ pc = <<"list_git", "walk">>[Len(attempts)]
             /\ stderr = ""
             /\ exit_code = -1

\* C3: the exit code is 2 with a diagnostic and no output when the root does
\* not exist; else 1 with the no-match message when no listed file matched a
\* known language; else 0 with the table.
ExitCodeThreeCases ==
    Ended =>
        IF ~root_exists
        THEN exit_code = 2 /\ stderr # "" /\ stdout = ""
        ELSE IF \A i \in 1..Len(files) : language_for_path(files[i]) = None
        THEN exit_code = 1 /\ stdout = NoMatchText
        ELSE exit_code = 0 /\ rows # <<>> /\ stdout = format_table(rows)

RECURSIVE sum_counts_upto(_, _)
sum_counts_upto(s, n) ==
    IF n = 0 THEN 0 ELSE s[n][2] + sum_counts_upto(s, n - 1)

\* C4: in every report the count of the TOTAL row is the sum of the counts of
\* the rows printed before it, and none of those counts is negative.
TotalIsSumOfRows ==
    Reported =>
        /\ rows # <<>>
        /\ rows[Len(rows)][1] = "TOTAL"
        /\ rows[Len(rows)][2] = sum_counts_upto(rows, Len(rows) - 1)
        /\ \A i \in 1..(Len(rows) - 1) : rows[i][2] >= 0

\* a --code-only report that left a counted language out and kept two
TotalWitness ==
    /\ Reported
    /\ code_only
    /\ Len(rows) = 3
    /\ Len(totals) > 2
    /\ sum_lines(totals) > rows[3][2]
    /\ rows[3][2] > 0

\* C7: without --include-self the script's own file changes no total and
\* makes no row, and a root that lists only it ends with the no-match message
\* and exit code 1; with --include-self it is counted under its language like
\* any other file; no file other than the script's own is left out by the rule.
SelfExclusionStep ==
    /\ (pc = "scan" /\ idx <= Len(files) /\ is_own_file(files[idx]) /\ ~include_self)
          => /\ totals' = totals
             /\ idx' = idx + 1
             /\ pc' = "scan"
    /\ (pc = "scan" /\ idx <= Len(files) /\ cur'.state = "regular"
            /\ language_for_path(files[idx]) # None
            /\ (include_self \/ ~is_own_file(files[idx])))
          => /\ cur'.action = "count"
             /\ has_key(totals', language_for_path(files[idx]))
             /\ sum_lines(totals') = sum_lines(totals) + cur'.lines
    /\ cur'.action = "self" => (is_own_file(cur'.path) /\ ~include_self)
    /\ (pc' = "done" /\ root_exists /\ ~include_self /\ self_under_root)
          => /\ (\A i \in 1..Len(files) :
                    files[i] # SelfRel => language_for_path(files[i]) # "Python")
                  => ("Python" \notin labels_of(totals') /\ "Python" \notin labels_of(rows'))
             /\ files = <<SelfRel>> => (exit_code' = 1 /\ stdout' = NoMatchText)

SelfExclusion ==
    [][SelfExclusionStep]_vars

\* the script's own file was listed with another file, left out, and the
\* report has no row for its language
SelfExclusionWitness ==
    /\ Reported
    /\ ~include_self
    /\ self_under_root
    /\ Len(files) = 2
    /\ files[1] = SelfRel
    /\ "Python" \notin labels_of(rows)

Scenario ==
    << <<(<<"a", ".", "p", "y">>)>>,
       <<(<<"b", ".", "c", "p", "p">>)>>,
       <<(<<"R", "E", "A", "D", "M", "E", ".", "m", "d">>)>>,
       <<(<<"n", "o", "t", "e", "s", ".", "t", "x", "t">>)>> >>

ScenarioTotals ==
    {<<"Python", 3>>, <<"C++", 5>>, <<"Markdown", 2>>, <<"Text", 0>>}

\* C8: with --code-only the rows before TOTAL are exactly the accumulated
\* totals of the code languages, counts unchanged; without it they are all
\* accumulated totals, zero counts included; a.py 3, b.cpp 5, README.md 2 and
\* notes.txt 0 give C++ 5, Python 3, Markdown 2, Text 0, TOTAL 10, and
\* C++ 5, Python 3, TOTAL 8 with --code-only.
CodeOnlyFilter ==
    Reported =>
        /\ code_only =>
              /\ items_of(LanguageRows) = {it \in items_of(totals) : it[1] \in CodeLabels}
              /\ Len(LanguageRows) = Cardinality({it \in items_of(totals) : it[1] \in CodeLabels})
        /\ ~code_only =>
              /\ items_of(LanguageRows) = items_of(totals)
              /\ Len(LanguageRows) = Len(totals)
        /\ (files = Scenario /\ items_of(totals) = ScenarioTotals) =>
              rows = IF code_only
                     THEN << <<"C++", 5>>, <<"Python", 3>>, <<"TOTAL", 8>> >>
                     ELSE << <<"C++", 5>>, <<"Python", 3>>, <<"Markdown", 2>>,
                             <<"Text", 0>>, <<"TOTAL", 10>> >>

\* the scenario of the four files, run with --code-only
CodeOnlyWitness ==
    /\ Reported
    /\ code_only
    /\ files = Scenario
    /\ items_of(totals) = ScenarioTotals
    /\ rows = << <<"C++", 5>>, <<"Python", 3>>, <<"TOTAL", 8>> >>

\* C9: the rows before TOTAL are in descending order of count, no label is on
\* two rows, and TOTAL is the last row and only the last.
RowsSortedTotalLast ==
    Reported =>
        /\ \A i \in 1..(Len(rows) - 2) : rows[i][2] >= rows[i + 1][2]
        /\ \A i, j \in 1..Len(rows) : rows[i][1] = rows[j][1] => i = j
        /\ rows[Len(rows)][1] = "TOTAL"

\* three languages whose totals were accumulated in ascending order of count
SortedWitness ==
    /\ Reported
    /\ Len(totals) = 3
    /\ totals[1][2] < totals[2][2]
    /\ totals[2][2] < totals[3][2]
    /\ rows[1] = totals[3]
    /\ rows[3] = totals[1]

\* C10: with --code-only, when files were counted but none in a code language,
\* main prints no no-match message and does not exit 1: the report is the
\* single row TOTAL with count 0 and the exit code is 0.
NoMatchDecidedBeforeFilter ==
    (pc = "done" /\ code_only /\ totals # <<>> /\ labels_of(totals) \cap CodeLabels = {})
    => /\ exit_code = 0
       /\ rows = << <<"TOTAL", 0>> >>
       /\ stdout = "TOTAL         0"
       /\ stdout # NoMatchText

\* a Markdown file was counted under --code-only
NoMatchWitness ==
    /\ pc = "done"
    /\ code_only
    /\ labels_of(totals) = {"Markdown"}
    /\ rows = << <<"TOTAL", 0>> >>
    /\ exit_code = 0
====
